---- MODULE Spec2Model ----
(***************************************************************************)
(* Product Demo Service: the Product entity (service/models.py) and its    *)
(* REST routes (service/routes.py).                                        *)
(*                                                                         *)
(* The database is the committed table `store`.  The SQLAlchemy session is *)
(* `session`: the attribute values assigned in memory to persistent        *)
(* objects and not committed yet.  Every db.session.commit() writes the    *)
(* whole session to the table; every query sees the table through the      *)
(* session (identity map, autoflush).                                       *)
(***************************************************************************)
EXTENDS Integers, Sequences, FiniteSets, TLC

\* Bound: primary keys the storage engine hands out are 1..MaxId.
MaxId == 2

Ids == 1..MaxId

\* Python's None for Product.id (models.py:51); `not self.id` is also true of 0.
NoId == 0

(***************************************************************************)
(* Text.  A string that the program parses or formats character by         *)
(* character (a price) is a sequence of one-character strings.             *)
(***************************************************************************)
DigitChars == <<"0", "1", "2", "3", "4", "5", "6", "7", "8", "9">>

IsDigit(c) == \E i \in 1..10 : DigitChars[i] = c

DigitVal(c) == (CHOOSE i \in 1..10 : DigitChars[i] = c) - 1

AllDigits(cs) == \A i \in 1..Len(cs) : IsDigit(cs[i])

\* str(n) for a natural number n.
RECURSIVE NatToChars(_)
NatToChars(n) ==
    IF n < 10 THEN <<DigitChars[n + 1]>>
    ELSE NatToChars(n \div 10) \o <<DigitChars[(n % 10) + 1]>>

\* int(cs) for a non-empty sequence of digits.
RECURSIVE CharsToNat(_)
CharsToNat(cs) ==
    IF cs = <<>> THEN 0
    ELSE CharsToNat(SubSeq(cs, 1, Len(cs) - 1)) * 10 + DigitVal(cs[Len(cs)])

\* str(int(cs)): the digits without leading zeros, "0" when nothing is left.
RECURSIVE StripLeadingZeros(_)
StripLeadingZeros(cs) ==
    IF cs = <<>> THEN <<"0">>
    ELSE IF cs[1] = "0" /\ Len(cs) > 1 THEN StripLeadingZeros(Tail(cs))
    ELSE cs

Zeros(n) == [i \in 1..n |-> "0"]

\* The index of the first occurrence of one of the characters `set` in cs, or 0.
FirstOf(cs, set) ==
    IF \E i \in 1..Len(cs) : cs[i] \in set
    THEN CHOOSE i \in 1..Len(cs) : cs[i] \in set /\ \A j \in 1..(i - 1) : cs[j] \notin set
    ELSE 0

(***************************************************************************)
(* decimal.Decimal.  A value is its sign, its coefficient (the digit       *)
(* string _int) and its exponent; `special` is "" for a finite number,     *)
(* "n" for NaN and "F" for Infinity, as in Python's representation.         *)
(***************************************************************************)
Dec(sign, int, exp, special) ==
    [sign |-> sign, int |-> int, exp |-> exp, special |-> special]

\* The price of a Product whose price attribute was never assigned.
NoPrice == Dec(0, <<>>, 0, "None")

\* The result of a conversion that raises.
Raises == [ok |-> FALSE, val |-> NoPrice]

Returns(d) == [ok |-> TRUE, val |-> d]

\* The exponent part "[-+]?\d+" of a decimal literal.
ExpOk(cs) ==
    /\ cs # <<>>
    /\ LET body == IF cs[1] \in {"-", "+"} THEN Tail(cs) ELSE cs
       IN  body # <<>> /\ AllDigits(body)

ExpVal(cs) ==
    IF cs[1] = "-" THEN 0 - CharsToNat(Tail(cs))
    ELSE IF cs[1] = "+" THEN CharsToNat(Tail(cs))
    ELSE CharsToNat(cs)

\* Decimal(str): sign, digits with at most one point, optional exponent; or
\* Inf, Infinity, NaN.  Anything else raises InvalidOperation.
DecimalFromChars(cs) ==
    LET signed == cs # <<>> /\ cs[1] \in {"-", "+"}
        sign   == IF signed /\ cs[1] = "-" THEN 1 ELSE 0
        rest   == IF signed THEN Tail(cs) ELSE cs
        epos   == FirstOf(rest, {"E", "e"})
        mant   == IF epos = 0 THEN rest ELSE SubSeq(rest, 1, epos - 1)
        expo   == IF epos = 0 THEN <<>> ELSE SubSeq(rest, epos + 1, Len(rest))
        dpos   == FirstOf(mant, {"."})
        intp   == IF dpos = 0 THEN mant ELSE SubSeq(mant, 1, dpos - 1)
        frac   == IF dpos = 0 THEN <<>> ELSE SubSeq(mant, dpos + 1, Len(mant))
    IN  IF rest = <<"N", "a", "N">> THEN Returns(Dec(sign, <<>>, 0, "n"))
        ELSE IF rest \in {<<"I", "n", "f">>, <<"I", "n", "f", "i", "n", "i", "t", "y">>}
        THEN Returns(Dec(sign, <<"0">>, 0, "F"))
        ELSE IF /\ AllDigits(intp) /\ AllDigits(frac)
                /\ Len(intp) + Len(frac) > 0
                /\ (epos = 0 \/ ExpOk(expo))
        THEN Returns(Dec(sign, StripLeadingZeros(intp \o frac),
                         (IF epos = 0 THEN 0 ELSE ExpVal(expo)) - Len(frac), ""))
        ELSE Raises

\* Decimal(int): exact, exponent 0.
DecimalFromInt(n) ==
    Returns(Dec(IF n < 0 THEN 1 ELSE 0, NatToChars(IF n < 0 THEN 0 - n ELSE n), 0, ""))

\* str(Decimal): plain notation when the exponent is <= 0 and the number is
\* not too small, scientific notation otherwise.
DecimalToChars(d) ==
    LET sign       == IF d.sign = 1 THEN <<"-">> ELSE <<>>
        leftdigits == d.exp + Len(d.int)
        dotplace   == IF d.exp <= 0 /\ leftdigits > -6 THEN leftdigits ELSE 1
        intpart    == IF dotplace <= 0 THEN <<"0">>
                      ELSE IF dotplace >= Len(d.int)
                      THEN d.int \o Zeros(dotplace - Len(d.int))
                      ELSE SubSeq(d.int, 1, dotplace)
        fracpart   == IF dotplace <= 0 THEN <<".">> \o Zeros(0 - dotplace) \o d.int
                      ELSE IF dotplace >= Len(d.int) THEN <<>>
                      ELSE <<".">> \o SubSeq(d.int, dotplace + 1, Len(d.int))
        e          == leftdigits - dotplace
        exppart    == IF e = 0 THEN <<>>
                      ELSE IF e < 0 THEN <<"E", "-">> \o NatToChars(0 - e)
                      ELSE <<"E", "+">> \o NatToChars(e)
    IN  IF d.special = "n" THEN sign \o <<"N", "a", "N">>
        ELSE IF d.special = "F" THEN sign \o <<"I", "n", "f", "i", "n", "i", "t", "y">>
        ELSE sign \o intpart \o fracpart \o exppart

(***************************************************************************)
(* class Category(Enum): a member is modelled by its value, 0..5.          *)
(***************************************************************************)
Category ==
    [UNKNOWN |-> 0, CLOTHS |-> 1, FOOD |-> 2, HOUSEWARES |-> 3,
     AUTOMOTIVE |-> 4, TOOLS |-> 5]

CategoryNames == DOMAIN Category

\* member.name
CategoryName(v) == CHOOSE n \in CategoryNames : Category[n] = v

(***************************************************************************)
(* JSON values of a request body, tagged by their Python type.             *)
(***************************************************************************)
Absent == [t |-> "absent"]

JNull == [t |-> "null"]

JStr(s) == [t |-> "str", s |-> s]

JChars(cs) == [t |-> "chars", cs |-> cs]

JBool(b) == [t |-> "bool", b |-> b]

JInt(n) == [t |-> "int", n |-> n]


(***************************************************************************)
(* class Product.  An instance is a record of its six columns; a request    *)
(* body is a record of the JSON values under the keys deserialize reads     *)
(* (and under "id", which it never reads).                                  *)
(***************************************************************************)

\* Product(): no attribute assigned yet, id None.
NewProduct ==
    [id |-> NoId, name |-> "", description |-> "", price |-> NoPrice,
     available |-> FALSE, category |-> Category["UNKNOWN"]]

Body(kind, name, description, price, available, category, id) ==
    [kind |-> kind, name |-> name, description |-> description, price |-> price,
     available |-> available, category |-> category, id |-> id]

\* {} is a dict without keys.
EmptyDict == Body("dict", Absent, Absent, Absent, Absent, Absent, Absent)

\* The JSON document null: request.get_json() returns None.
NullBody == Body("null", Absent, Absent, Absent, Absent, Absent, Absent)

\* A JSON array such as [1]: truthy, and no mapping.
ListBody == Body("list", Absent, Absent, Absent, Absent, Absent, Absent)

\* No body, or a body that is no JSON: request.get_json() answers 400 itself.
MalformedBody == Body("malformed", Absent, Absent, Absent, Absent, Absent, Absent)

\* `not data`
Falsy(data) == data.kind = "null" \/ data = EmptyDict

\* Decimal(data["price"]) by the type of the JSON value; bool is an int in
\* Python, None and the other types raise TypeError.
DecimalOf(v) ==
    IF v.t = "chars" THEN DecimalFromChars(v.cs)
    ELSE IF v.t = "int" THEN DecimalFromInt(v.n)
    ELSE IF v.t = "bool" THEN DecimalFromInt(IF v.b THEN 1 ELSE 0)
    ELSE Raises

\* Category[data["category"]]: a KeyError unless the value is a member's name.
CategoryKnown(v) == v.t = "str" /\ v.s \in CategoryNames

\* The outcome of deserialize: whether it returned (ok) or raised
\* DataValidationError, and the instance with the assignments made until then.
Deserialized(ok, p) == [ok |-> ok, p |-> p]

\* serialize with the price rendered as str(int(self.price)).
serialize_int_price(p) ==
    [id |-> p.id, name |-> p.name, description |-> p.description,
     price |-> IF p.price.special = "" /\ p.price.exp < 0
               THEN DecimalToChars(Dec(p.price.sign,
                        IF Len(p.price.int) + p.price.exp > 0
                        THEN SubSeq(p.price.int, 1, Len(p.price.int) + p.price.exp)
                        ELSE <<"0">>, 0, ""))
               ELSE DecimalToChars(p.price),
     available |-> p.available, category |-> CategoryName(p.category)]

\* Product.serialize
serialize(p) ==
    [id |-> p.id, name |-> p.name, description |-> p.description,
     price |-> DecimalToChars(p.price), available |-> p.available,
     category |-> CategoryName(p.category)]

\* deserialize with an unrecognized category coerced to UNKNOWN instead of
\* rejected.
deserialize_coercing(p, data) ==
    IF Falsy(data) \/ data.kind # "dict" \/ data.name = Absent
    THEN Deserialized(FALSE, p)
    ELSE LET p1 == [p EXCEPT !.name = data.name.s] IN
    IF data.description = Absent THEN Deserialized(FALSE, p1)
    ELSE LET p2 == [p1 EXCEPT !.description = data.description.s] IN
    IF data.price = Absent \/ ~DecimalOf(data.price).ok THEN Deserialized(FALSE, p2)
    ELSE LET p3 == [p2 EXCEPT !.price = DecimalOf(data.price).val] IN
    IF data.available = Absent \/ data.available.t # "bool" THEN Deserialized(FALSE, p3)
    ELSE LET p4 == [p3 EXCEPT !.available = data.available.b] IN
    IF data.category = Absent THEN Deserialized(FALSE, p4)
    ELSE Deserialized(TRUE, [p4 EXCEPT !.category =
            IF CategoryKnown(data.category) THEN Category[data.category.s]
            ELSE Category["UNKNOWN"]])

\* Product.deserialize: assigns name, description, price, then checks and
\* assigns available, then category; the first failure raises and keeps the
\* assignments already made.  id is never assigned.
deserialize(p, data) ==
    IF Falsy(data) \/ data.kind # "dict" \/ data.name = Absent
    THEN Deserialized(FALSE, p)
    ELSE LET p1 == [p EXCEPT !.name = data.name.s] IN
    IF data.description = Absent THEN Deserialized(FALSE, p1)
    ELSE LET p2 == [p1 EXCEPT !.description = data.description.s] IN
    IF data.price = Absent \/ ~DecimalOf(data.price).ok THEN Deserialized(FALSE, p2)
    ELSE LET p3 == [p2 EXCEPT !.price = DecimalOf(data.price).val] IN
    IF data.available = Absent \/ data.available.t # "bool" THEN Deserialized(FALSE, p3)
    ELSE LET p4 == [p3 EXCEPT !.available = data.available.b] IN
    IF data.category = Absent \/ ~CategoryKnown(data.category) THEN Deserialized(FALSE, p4)
    ELSE Deserialized(TRUE, [p4 EXCEPT !.category = Category[data.category.s]])

\* The JSON document of a serialized product, as a client sends it back
\* (json=product.serialize() in the tests).
AsBody(s) ==
    Body("dict", JStr(s.name), JStr(s.description), JChars(s.price),
         JBool(s.available), JStr(s.category),
         IF s.id = NoId THEN JNull ELSE JInt(s.id))

(***************************************************************************)
(* Inputs.  The requests and calls the model draws from.                    *)
(***************************************************************************)
P1250 == <<"1", "2", ".", "5", "0">>

\* Valid payloads; the second carries an "id" key.
ValidBodies ==
    { Body("dict", JStr("Hat"), JStr("A red hat"), JChars(P1250), JBool(TRUE),
           JStr("CLOTHS"), Absent),
      Body("dict", JStr("Mug"), JStr("A red hat"), JChars(P1250), JBool(FALSE),
           JStr("FOOD"), JInt(2)) }

\* One payload per way deserialize can fail.
MissingKeyBodies ==
    { Body("dict", Absent, JStr("A red hat"), JChars(P1250), JBool(FALSE), JStr("FOOD"), Absent),
      Body("dict", JStr("Mug"), Absent, JChars(P1250), JBool(FALSE), JStr("FOOD"), Absent),
      Body("dict", JStr("Mug"), JStr("A red hat"), Absent, JBool(FALSE), JStr("FOOD"), Absent),
      Body("dict", JStr("Mug"), JStr("A red hat"), JChars(P1250), Absent, JStr("FOOD"), Absent),
      Body("dict", JStr("Mug"), JStr("A red hat"), JChars(P1250), JBool(FALSE), Absent, Absent) }

BadAvailableBodies ==
    { Body("dict", JStr("Mug"), JStr("A red hat"), JChars(P1250), JStr("true"),
           JStr("FOOD"), Absent) }

BadCategoryBodies ==
    { Body("dict", JStr("Mug"), JStr("A red hat"), JChars(P1250), JBool(FALSE),
           JStr("INVALID"), Absent) }

BadPriceBodies ==
    { Body("dict", JStr("Mug"), JStr("A red hat"), JChars(<<"a", "b", "c">>), JBool(TRUE),
           JStr("FOOD"), Absent) }

EmptyBodies == {EmptyDict, NullBody}

\* The payloads deserialize is to reject.
InvalidBodies ==
    EmptyBodies \cup {ListBody} \cup MissingKeyBodies \cup BadAvailableBodies
        \cup BadCategoryBodies \cup BadPriceBodies

Bodies == ValidBodies \cup InvalidBodies \cup {MalformedBody}

\* The request's Content-Type header: absent, or its value.
JsonType == JStr("application/json")

ContentTypes == {Absent, JsonType, JStr("application/json; charset=utf-8")}

\* Query parameters of GET /products: absent, or the text given.
NameArgs == {Absent, JStr(""), JStr("Hat")}

CategoryArgs == {Absent, JStr(""), JStr("FOOD"), JStr("INVALID")}

AvailableArgs ==
    {Absent, JChars(<<>>), JChars(<<"T", "r", "u", "e">>),
     JChars(<<"f", "a", "l", "s", "e">>), JChars(<<"m", "a", "y", "b", "e">>)}

Query(name, category, available) ==
    [name |-> name, category |-> category, available |-> available]

NoQuery == Query(Absent, Absent, Absent)

Queries ==
    {q \in {Query(n, c, a) : n \in NameArgs, c \in CategoryArgs, a \in AvailableArgs} :
        Absent \in {q.name, q.category, q.available}}

(***************************************************************************)
(* State.                                                                   *)
(***************************************************************************)
VARIABLES
    store,     \* the committed rows of the product table, by primary key
    session,   \* db.session: uncommitted in-memory values of persistent objects
    context,   \* who calls, and how long the session lives (see Contexts)
    obj,       \* the Product instance a direct caller of the model API holds
    resp,      \* the last request or call, and its answer
    puts       \* the PUT requests in flight, each on a thread of its own

vars == <<store, session, context, obj, resp, puts>>

\* The clients whose PUT requests run concurrently.
Clients == {"A", "B"}

\* init_db pushes an application context that is never popped
\* (models.py:106).  "api": the caller uses the Product API directly under
\* that context.  "shared": HTTP requests are served on the thread that pushed
\* it, so they share its session, which no request tears down.  "request":
\* requests are served on other threads; each pushes its own context and its
\* session is removed (rolled back) when the request ends.
Contexts == {"api", "shared", "request"}

NoRows == [i \in {} |-> NewProduct]

\* What the session sees: the table overlaid with its uncommitted values.
View(st, se) == [i \in DOMAIN st |-> IF i \in DOMAIN se THEN se[i] ELSE st[i]]

Db(st, se) == [store |-> st, session |-> se]

\* An attribute assignment to the persistent object with primary key id.
Assign(st, se, id, p) ==
    IF id \notin DOMAIN st THEN se
    ELSE IF p = st[id]
    THEN [i \in DOMAIN se \ {id} |-> se[i]]
    ELSE [i \in DOMAIN se \cup {id} |-> IF i = id THEN p ELSE se[i]]

\* db.session.commit(): everything pending in the session is written.
commit(st, se) == Db(View(st, se), NoRows)

\* create without the instance's id refreshed from the assigned primary key.
create_keeps_id(st, se, p, newid) ==
    Db(View(st, se) @@ (newid :> p), NoRows)

\* Product.create: drops the id, adds the instance, commits; the storage
\* engine assigns the primary key newid.
create(st, se, p, newid) ==
    Db(View(st, se) @@ (newid :> [p EXCEPT !.id = newid]), NoRows)

\* update without the check of the id.
update_unchecked(st, se, p) ==
    [raised |-> FALSE, db |-> commit(st, se)]

\* Product.update: raises DataValidationError when id is not set, else commits.
update(st, se, p) ==
    IF p.id = NoId
    THEN [raised |-> TRUE, db |-> Db(st, se)]
    ELSE [raised |-> FALSE, db |-> commit(st, se)]

\* Product.delete: deletes the instance's row and commits.
delete(st, se, p) ==
    LET v == View(st, se)
    IN  Db([i \in DOMAIN v \ {p.id} |-> v[i]], NoRows)

\* Product.find: the instance or None, as a set of at most one.
find(st, se, product_id) ==
    IF product_id \in DOMAIN st THEN {View(st, se)[product_id]} ELSE {}

\* Product.all
all(st, se) == {View(st, se)[i] : i \in DOMAIN st}

\* Product.find_by_name
find_by_name(st, se, name) == {p \in all(st, se) : p.name = name}

\* Product.find_by_availability
find_by_availability(st, se, available) ==
    {p \in all(st, se) : p.available = available}

\* The answer of find_by_category: None (resolved = FALSE) or a list.
Found(resolved, rows) == [resolved |-> resolved, rows |-> rows]

\* find_by_category answering an empty list for a name that is no member's.
find_by_category_empty(st, se, category) ==
    IF category.t = "enum"
    THEN Found(TRUE, {p \in all(st, se) : p.category = category.v})
    ELSE IF category.t = "str" /\ category.s \in CategoryNames
    THEN Found(TRUE, {p \in all(st, se) : p.category = Category[category.s]})
    ELSE Found(TRUE, {})

\* Product.find_by_category: takes a member ([t |-> "enum", v |-> value]) or a
\* name; a name that is no member's gives None.
find_by_category(st, se, category) ==
    IF category.t = "enum"
    THEN Found(TRUE, {p \in all(st, se) : p.category = category.v})
    ELSE IF category.t = "str" /\ category.s \in CategoryNames
    THEN Found(TRUE, {p \in all(st, se) : p.category = Category[category.s]})
    ELSE Found(FALSE, {})

(***************************************************************************)
(* Answers.                                                                 *)
(***************************************************************************)
\* op, id: the operation and the id it was given; ctype: the Content-Type of
\* a POST or PUT; q: the query of a GET /products.  code: the HTTP status (0
\* for a direct call); raised: the call raised DataValidationError; none: the
\* call returned None; body: the serialized products of the answer;
\* location: the id the Location header refers to.
Resp(op, id, code, raised, none, body, location) ==
    [op |-> op, id |-> id, ctype |-> Absent, q |-> NoQuery, code |-> code,
     raised |-> raised, none |-> none, body |-> body, location |-> location]

Sent(ctype, r) == [r EXCEPT !.ctype = ctype]

Queried(q, r) == [r EXCEPT !.q = q]

Status(op, id, code) == Resp(op, id, code, FALSE, FALSE, {}, NoId)

UpperChars ==
    <<"A", "B", "C", "D", "E", "F", "G", "H", "I", "J", "K", "L", "M",
      "N", "O", "P", "Q", "R", "S", "T", "U", "V", "W", "X", "Y", "Z">>

LowerChars ==
    <<"a", "b", "c", "d", "e", "f", "g", "h", "i", "j", "k", "l", "m",
      "n", "o", "p", "q", "r", "s", "t", "u", "v", "w", "x", "y", "z">>

\* str.lower
Lower(cs) ==
    [i \in 1..Len(cs) |->
        IF \E k \in 1..26 : UpperChars[k] = cs[i]
        THEN LowerChars[CHOOSE k \in 1..26 : UpperChars[k] = cs[i]]
        ELSE cs[i]]

\* check_content_type passing every request that has the header.
check_content_type_present(ctype, content_type) ==
    ctype # Absent

\* check_content_type passes: the header is present and equal to the type.
check_content_type(ctype, content_type) ==
    ctype # Absent /\ ctype = content_type

\* The session at the end of a request: removed with the request's own
\* application context, kept when the request ran in the pushed one.
Teardown(se) == IF context = "request" THEN NoRows ELSE se

\* The primary keys the storage engine can assign: those of no stored row.
FreshIds == Ids \ DOMAIN store

\* An HTTP action's common frame.
Http ==
    /\ context \in {"shared", "request"}
    /\ UNCHANGED <<context, obj, puts>>

\* POST /products
create_products(ctype, data) ==
    /\ Http
    /\ IF ~check_content_type(ctype, JsonType)
       THEN /\ resp' = Sent(ctype, Status("POST", NoId, 415))
            /\ UNCHANGED <<store, session>>
       ELSE IF data.kind = "malformed" \/ ~deserialize(NewProduct, data).ok
       THEN /\ resp' = Sent(ctype, Status("POST", NoId, 400))
            /\ session' = Teardown(session)
            /\ UNCHANGED store
       ELSE \E newid \in FreshIds :
            LET product == deserialize(NewProduct, data).p
                db      == create(store, session, product, newid)
                created == db.store[newid]
            IN  /\ store' = db.store
                /\ session' = Teardown(db.session)
                /\ resp' = Sent(ctype, Resp("POST", NoId, 201, FALSE, FALSE,
                                            {serialize(created)}, created.id))

\* The products GET /products selects: None (resolved = FALSE) stands for an
\* abort with 400.
list_select(st, se, q) ==
    IF q.name # Absent /\ q.name.s # ""
    THEN Found(TRUE, find_by_name(st, se, q.name.s))
    ELSE IF q.category # Absent /\ q.category.s # ""
    THEN find_by_category(st, se, q.category)
    ELSE IF q.available # Absent
    THEN IF Lower(q.available.cs) \notin {<<"t", "r", "u", "e">>, <<"f", "a", "l", "s", "e">>}
         THEN Found(FALSE, {})
         ELSE Found(TRUE, find_by_availability(st, se,
                            Lower(q.available.cs) = <<"t", "r", "u", "e">>))
    ELSE Found(TRUE, all(st, se))

\* GET /products
list_products(q) ==
    /\ Http
    /\ LET products == list_select(store, session, q)
       IN  resp' = IF products.resolved
                   THEN Queried(q, Resp("LIST", NoId, 200, FALSE, FALSE,
                                        {serialize(p) : p \in products.rows}, NoId))
                   ELSE Queried(q, Status("LIST", NoId, 400))
    /\ session' = Teardown(session)
    /\ UNCHANGED store

\* GET /products/<product_id>
get_product(product_id) ==
    /\ Http
    /\ LET product == find(store, session, product_id)
       IN  resp' = IF product = {} THEN Status("GET", product_id, 404)
                   ELSE Resp("GET", product_id, 200, FALSE, FALSE,
                             {serialize(p) : p \in product}, NoId)
    /\ session' = Teardown(session)
    /\ UNCHANGED store

\* PUT with the body validated before the product is looked up.
update_product_validating_first(product_id, ctype, data) ==
    /\ Http
    /\ IF ~check_content_type(ctype, JsonType)
       THEN /\ resp' = Sent(ctype, Status("PUT", product_id, 415))
            /\ UNCHANGED <<store, session>>
       ELSE IF data.kind = "malformed" \/ ~deserialize(NewProduct, data).ok
       THEN /\ resp' = Sent(ctype, Status("PUT", product_id, 400))
            /\ session' = Teardown(session)
            /\ UNCHANGED store
       ELSE IF find(store, session, product_id) = {}
       THEN /\ resp' = Sent(ctype, Status("PUT", product_id, 404))
            /\ session' = Teardown(session)
            /\ UNCHANGED store
       ELSE LET product == CHOOSE p \in find(store, session, product_id) : TRUE
                parsed  == deserialize(product, data)
                pending == Assign(store, session, product_id, parsed.p)
                done    == update(store, pending, parsed.p)
            IN  /\ store' = done.db.store
                /\ session' = Teardown(done.db.session)
                /\ resp' = Sent(ctype, Resp("PUT", product_id, 200, FALSE, FALSE,
                                {serialize(p) : p \in find(done.db.store, done.db.session, product_id)},
                                NoId))

\* PUT /products/<product_id>
update_product(product_id, ctype, data) ==
    /\ Http
    /\ IF ~check_content_type(ctype, JsonType)
       THEN /\ resp' = Sent(ctype, Status("PUT", product_id, 415))
            /\ UNCHANGED <<store, session>>
       ELSE IF find(store, session, product_id) = {}
       THEN /\ resp' = Sent(ctype, Status("PUT", product_id, 404))
            /\ session' = Teardown(session)
            /\ UNCHANGED store
       ELSE IF data.kind = "malformed"
       THEN /\ resp' = Sent(ctype, Status("PUT", product_id, 400))
            /\ session' = Teardown(session)
            /\ UNCHANGED store
       ELSE LET product == CHOOSE p \in find(store, session, product_id) : TRUE
                parsed  == deserialize(product, data)
                pending == Assign(store, session, product_id, parsed.p)
                done    == update(store, pending, parsed.p)
            IN  IF ~parsed.ok \/ done.raised
                THEN /\ resp' = Sent(ctype, Status("PUT", product_id, 400))
                     /\ session' = Teardown(pending)
                     /\ UNCHANGED store
                ELSE /\ store' = done.db.store
                     /\ session' = Teardown(done.db.session)
                     /\ resp' = Sent(ctype, Resp("PUT", product_id, 200, FALSE, FALSE,
                                     {serialize(p) : p \in find(done.db.store, done.db.session, product_id)},
                                     NoId))

\* DELETE /products/<product_id>
delete_products(product_id) ==
    /\ Http
    /\ LET product == find(store, session, product_id)
       IN  IF product = {}
           THEN /\ resp' = Status("DELETE", product_id, 404)
                /\ session' = Teardown(session)
                /\ UNCHANGED store
           ELSE LET db == delete(store, session, CHOOSE p \in product : TRUE)
                IN  /\ store' = db.store
                    /\ session' = Teardown(db.session)
                    /\ resp' = Status("DELETE", product_id, 204)

(***************************************************************************)
(* Direct calls of the Product API, as the model tests make them.  obj is   *)
(* the instance the caller holds: transient (never added to the session),   *)
(* persistent (a row of the table; its attributes are what the session      *)
(* sees) or deleted.                                                        *)
(***************************************************************************)
Handle(state, complete, p) == [state |-> state, complete |-> complete, p |-> p]

\* The attributes of the instance the caller holds.
Attrs(h, st, se) ==
    IF h.state = "persistent" THEN View(st, se)[h.p.id] ELSE h.p

\* A persistent or deleted instance: only its id is kept in the handle.
Ref(state, id) == Handle(state, TRUE, [NewProduct EXCEPT !.id = id])

\* Product(name=..., ...) as the tests and the factory build it: every
\* attribute given, the id left None or set by the caller.
Built == {deserialize(NewProduct, b).p : b \in ValidBodies}

PresetIds == {NoId, MaxId}

Api ==
    /\ context = "api"
    /\ UNCHANGED <<context, puts>>

\* Product(...)
new_product(p, id, complete) ==
    /\ Api
    /\ obj' = Handle("transient", complete, [p EXCEPT !.id = id])
    /\ resp' = Status("new", id, 0)
    /\ UNCHANGED <<store, session>>

\* obj.deserialize(data)
call_deserialize(data) ==
    /\ Api
    /\ obj.state # "deleted"
    /\ LET parsed == deserialize(Attrs(obj, store, session), data)
       IN  /\ resp' = Resp("deserialize", parsed.p.id, 0, ~parsed.ok, FALSE, {}, NoId)
           /\ IF obj.state = "persistent"
              THEN /\ session' = Assign(store, session, obj.p.id, parsed.p)
                   /\ UNCHANGED obj
              ELSE /\ obj' = Handle("transient", obj.complete \/ parsed.ok, parsed.p)
                   /\ UNCHANGED session
    /\ UNCHANGED store

\* obj.serialize()
call_serialize ==
    /\ Api
    /\ obj.complete /\ obj.state # "deleted"
    /\ resp' = Resp("serialize", obj.p.id, 0, FALSE, FALSE,
                    {serialize(Attrs(obj, store, session))}, NoId)
    /\ UNCHANGED <<store, session, obj>>

\* obj.create()
call_create ==
    /\ Api
    /\ obj.state = "transient" /\ obj.complete
    /\ \E newid \in FreshIds :
          LET db == create(store, session, obj.p, newid)
          IN  /\ store' = db.store
              /\ session' = db.session
              /\ obj' = Ref("persistent", newid)
              /\ resp' = Status("create", newid, 0)

\* obj.update()
call_update ==
    /\ Api
    /\ LET done == update(store, session, Attrs(obj, store, session))
       IN  /\ store' = done.db.store
           /\ session' = done.db.session
           /\ resp' = Resp("update", obj.p.id, 0, done.raised, FALSE, {}, NoId)
    /\ UNCHANGED obj

\* obj.delete()
call_delete ==
    /\ Api
    /\ obj.state = "persistent"
    /\ LET db == delete(store, session, Attrs(obj, store, session))
       IN  /\ store' = db.store
           /\ session' = db.session
    /\ obj' = Ref("deleted", obj.p.id)
    /\ resp' = Status("delete", obj.p.id, 0)

\* obj = Product.find(product_id)
call_find(product_id) ==
    /\ Api
    /\ LET product == find(store, session, product_id)
       IN  /\ resp' = Resp("find", product_id, 0, FALSE, product = {},
                           {serialize(p) : p \in product}, NoId)
           /\ obj' = IF product = {} THEN obj ELSE Ref("persistent", product_id)
    /\ UNCHANGED <<store, session>>

\* The categories find_by_category is called with: members and names.
CategoryCallArgs ==
    {[t |-> "enum", v |-> Category["FOOD"]], JStr("FOOD"), JStr("INVALID"), JStr("")}

\* Product.find_by_category(category)
call_find_by_category(category) ==
    /\ Api
    /\ LET products == find_by_category(store, session, category)
       IN  resp' = Resp("find_by_category", NoId, 0, FALSE, ~products.resolved,
                        {serialize(p) : p \in products.rows}, NoId)
    /\ UNCHANGED <<store, session, obj>>

\* Product.find_by_availability(available), Product.find_by_availability():
\* the parameter defaults to True.
call_find_by_availability(available) ==
    /\ Api
    /\ LET value == IF available = Absent THEN TRUE ELSE available.b
       IN  resp' = Resp("find_by_availability", NoId, 0, FALSE, FALSE,
                        {serialize(p) : p \in find_by_availability(store, session, value)},
                        NoId)
    /\ UNCHANGED <<store, session, obj>>

(***************************************************************************)
(* Specifications.  Spec: the REST service in either way of serving         *)
(* requests, and direct calls of the Product API; which of the three it is  *)
(* is fixed by `context` for a whole behaviour.  SerdeSpec: serialize and   *)
(* deserialize alone, over a wide range of payloads.                        *)
(***************************************************************************)
\* The payloads of the direct calls: a valid one that carries an "id" key,
\* one that fails after the first assignments, one that fails at once.
ApiBodies ==
    {b \in ValidBodies : b.id # Absent} \cup BadCategoryBodies \cup {EmptyDict}

\* A PUT request in flight: where its handler is (pc), the id, Content-Type
\* and body it was sent with, the row its session loaded, the attributes of
\* the loaded object (p), and its answer.
Put(pc, id, ctype, data, loaded, p, code, body) ==
    [pc |-> pc, id |-> id, ctype |-> ctype, data |-> data, loaded |-> loaded,
     p |-> p, code |-> code, body |-> body]

\* No request sent yet.
Idle == Put("idle", NoId, Absent, EmptyDict, NewProduct, NewProduct, 0, {})

Init ==
    /\ store = NoRows
    /\ session = NoRows
    /\ context \in Contexts
    /\ obj = Handle("transient", FALSE, NewProduct)
    /\ resp = Status("none", NoId, 0)
    /\ puts = [c \in Clients |-> Idle]

Next ==
    \/ \E ctype \in ContentTypes, data \in Bodies : create_products(ctype, data)
    \/ \E q \in Queries : list_products(q)
    \/ \E product_id \in Ids : get_product(product_id)
    \/ \E product_id \in Ids, ctype \in ContentTypes, data \in Bodies :
          update_product(product_id, ctype, data)
    \/ \E product_id \in Ids : delete_products(product_id)
    \/ \E p \in Built, id \in PresetIds : new_product(p, id, TRUE)
    \/ new_product(NewProduct, NoId, FALSE)
    \/ \E data \in ApiBodies : call_deserialize(data)
    \/ call_serialize
    \/ call_create
    \/ call_update
    \/ call_delete
    \/ \E product_id \in Ids : call_find(product_id)
    \/ \E category \in CategoryCallArgs : call_find_by_category(category)
    \/ \E available \in {Absent, JBool(TRUE), JBool(FALSE)} :
          call_find_by_availability(available)

Spec == Init /\ [][Next]_vars

(***************************************************************************)
(* SerdeSpec: Product().deserialize(data), serialize() of the result, and   *)
(* deserialize of the serialized form into a new Product.                   *)
(***************************************************************************)
\* Price texts Decimal() parses, and JSON numbers.
ParsablePrices ==
    {
      JChars(<<"1", "2", ".", "5", "0">>),
      JChars(<<"1", "2", ".", "5">>),
      JChars(<<"0", ".", "5", "0">>),
      JChars(<<".", "5">>),
      JChars(<<"5", ".">>),
      JChars(<<"0", "0", "7">>),
      JChars(<<"-", "0">>),
      JChars(<<"+", "3">>),
      JChars(<<"1", "E", "+", "2">>),
      JChars(<<"1", "e", "2">>),
      JChars(<<"1", "E", "-", "7">>),
      JChars(<<"0", ".", "0", "0", "0", "0", "0", "0", "1">>),
      JChars(<<"1", "0", "0">>),
      JChars(<<"N", "a", "N">>),
      JChars(<<"I", "n", "f", "i", "n", "i", "t", "y">>),
      JChars(<<"-", "I", "n", "f">>),
      JInt(7), JInt(0), JInt(-3), JBool(TRUE) }

\* Price values Decimal() raises on.
UnparsablePrices ==
    {
      JChars(<<"a", "b", "c">>),
      JChars(<<>>),
      JChars(<<"1", ".", "2", ".", "3">>),
      JChars(<<"E", "5">>),
      JChars(<<"-", "-", "1">>),
      JChars(<<".">>),
      JChars(<<"1", "E">>),
      JChars(<<"1", "2", ",", "5", "0">>),
      JNull }

SerdeAvailable == {JBool(TRUE), JBool(FALSE), JStr("true"), JInt(1), JNull}

SerdeCategories ==
    {JStr("FOOD"), JStr("UNKNOWN"), JStr("TOOLS"), JStr("INVALID"), JStr("food"), JInt(2)}

SerdeBodies ==
    {Body("dict", JStr("Hat"), JStr("A red hat"), price, available, category, id) :
        price \in ParsablePrices \cup UnparsablePrices,
        available \in SerdeAvailable, category \in SerdeCategories,
        id \in {Absent, JInt(1)}}
    \cup InvalidBodies

SerdeInit ==
    /\ store = NoRows
    /\ session = NoRows
    /\ context = "api"
    /\ obj = Handle("transient", FALSE, NewProduct)
    /\ resp = Status("none", NoId, 0)
    /\ puts = [c \in Clients |-> Idle]

\* product = Product(); product.id = id; product.deserialize(data)
build(data, id) ==
    /\ Api
    /\ resp.op = "none"
    /\ LET parsed == deserialize([NewProduct EXCEPT !.id = id], data)
       IN  /\ obj' = Handle("transient", parsed.ok, parsed.p)
           /\ resp' = Resp("deserialize", parsed.p.id, 0, ~parsed.ok, FALSE, {}, NoId)
    /\ UNCHANGED <<store, session>>

\* Product().deserialize(obj.serialize()), the serialized form having gone
\* through JSON as a request body does.
reload ==
    /\ Api
    /\ resp.op = "serialize"
    /\ \E s \in resp.body :
          LET parsed == deserialize(NewProduct, AsBody(s))
          IN  /\ obj' = Handle("transient", parsed.ok, parsed.p)
              /\ resp' = Resp("reload", parsed.p.id, 0, ~parsed.ok, FALSE, {}, NoId)
    /\ UNCHANGED <<store, session>>

SerdeNext ==
    \/ \E data \in SerdeBodies, id \in PresetIds : build(data, id)
    \/ resp.op = "deserialize" /\ call_serialize
    \/ reload

SerdeSpec == SerdeInit /\ [][SerdeNext]_vars

(***************************************************************************)
(* Properties.  A step's request or call is read from resp', the state it   *)
(* acted on from the unprimed variables.  "Stored" is the committed table,  *)
(* store.                                                                   *)
(***************************************************************************)
\* The six names of class Category, as the specification lists them.
VariantNames == {"UNKNOWN", "CLOTHS", "FOOD", "HOUSEWARES", "AUTOMOTIVE", "TOOLS"}

\* A step created product p under the primary key id.
CreatedAs(id, p) ==
    /\ id # NoId
    /\ id \notin DOMAIN store
    /\ DOMAIN store' = DOMAIN store \cup {id}
    /\ \A other \in DOMAIN store' \ {id} : store'[other].id # id
    /\ find(store', session', id) = {[p EXCEPT !.id = id]}

\* C1: a successful create (create() or POST /products answering 201) gives
\* the product a non-null id that no other stored product has; find(id) then
\* returns a product with the same name, description, price, available and
\* category, a GET /products/{id} that follows answers with it, and the 201
\* answer's Location refers to that id.
C1_CreateAssignsFreshId ==
    [][ /\ (resp'.op = "POST" /\ resp'.code = 201) =>
              \A data \in Bodies :
                 create_products(resp'.ctype, data) =>
                    /\ CreatedAs(resp'.location, deserialize(NewProduct, data).p)
                    /\ find(store', session', resp'.location) # {}
                    /\ \A r \in find(store', session', resp'.location) :
                          /\ r.name = data.name.s
                          /\ r.description = data.description.s
                          /\ Returns(r.price) = DecimalOf(data.price)
                          /\ r.available = data.available.b
                          /\ CategoryName(r.category) = data.category.s
                          /\ resp'.body = {serialize(r)}
        /\ resp'.op = "create" =>
              /\ CreatedAs(resp'.id, obj.p)
              /\ obj'.state = "persistent" /\ obj'.p.id = resp'.id
        /\ (resp.op = "POST" /\ resp.code = 201 /\ resp'.op = "GET"
                /\ resp'.id = resp.location) =>
              (resp'.code = 200 /\ resp'.body = resp.body)
        /\ (resp.op = "create" /\ resp'.op = "find" /\ resp'.id = resp.id) =>
              (~resp'.none /\ resp'.body = {serialize(store[resp.id])})
      ]_vars

C1_Witness ==
    /\ resp.op = "POST" /\ resp.code = 201
    /\ resp.location \in DOMAIN store
    /\ Cardinality(DOMAIN store) > 1
    /\ \A s \in resp.body : s.id = resp.location /\ s.price = P1250

\* C2: a delete (delete() or DELETE /products/{id} answering 204) removes the
\* product of that id and no other, and changes no other stored product;
\* find, GET, PUT (sent as application/json) and DELETE on an id that is not
\* stored answer not-found / 404 and remove nothing; an id that is not
\* stored stays so until a create.
C2_DeleteRemovesOnlyThatProduct ==
    [][ /\ ((resp'.op = "DELETE" /\ resp'.code = 204) \/ resp'.op = "delete") =>
              /\ resp'.id \in DOMAIN store
              /\ DOMAIN store' = DOMAIN store \ {resp'.id}
              /\ find(store', session', resp'.id) = {}
              /\ \A other \in DOMAIN store' : store'[other] = store[other]
        /\ (resp'.op \in {"GET", "DELETE"} /\ resp'.id \notin DOMAIN store) =>
              (resp'.code = 404 /\ store' = store)
        /\ (resp'.op = "PUT" /\ resp'.ctype = JsonType /\ resp'.id \notin DOMAIN store) =>
              (resp'.code = 404 /\ store' = store)
        /\ (resp'.op = "find" /\ resp'.id \notin DOMAIN store) => resp'.none
        /\ resp'.op \notin {"POST", "create"} => DOMAIN store' \subseteq DOMAIN store
      ]_vars

C4_UpdateKeepsIdAndOthers ==
    [][ /\ \A id \in DOMAIN store' : store'[id].id = id
        /\ \A id \in DOMAIN session' : session'[id].id = id
        /\ resp'.op = "deserialize" =>
              /\ resp'.id = Attrs(obj, store, session).id
              /\ obj'.state = obj.state
              /\ obj'.p.id = obj.p.id
        /\ (resp'.op = "PUT" /\ resp'.code = 200) =>
              \A data \in Bodies :
                 update_product(resp'.id, resp'.ctype, data) =>
                    /\ DOMAIN store' = DOMAIN store
                    /\ store'[resp'.id] =
                          [deserialize(NewProduct, data).p EXCEPT !.id = resp'.id]
                    /\ \A other \in DOMAIN store \ {resp'.id} :
                          store'[other] = store[other]
        /\ (resp'.op = "update" /\ ~resp'.raised) =>
              /\ DOMAIN store' = DOMAIN store
              /\ obj.state = "persistent" =>
                    store'[obj.p.id] = Attrs(obj, store, session)
              /\ \A other \in DOMAIN store :
                    (obj.state = "persistent" /\ other = obj.p.id)
                       \/ store'[other] = store[other]
      ]_vars

\* C5: for every Product built from a valid payload, serialize renders the
\* price as a decimal string and the category as its name, both of which
\* parse back to the same values, and deserializing the serialized form into
\* a new Product gives the same name, description, price, available and
\* category.
C5_RoundTrip ==
    [][ /\ resp'.op = "serialize" =>
              \A s \in resp'.body :
                 /\ DecimalFromChars(s.price) = Returns(obj.p.price)
                 /\ s.category \in VariantNames
                 /\ Category[s.category] = obj.p.category
        /\ resp'.op = "reload" =>
              /\ ~resp'.raised
              /\ obj'.p.name = obj.p.name
              /\ obj'.p.description = obj.p.description
              /\ obj'.p.price = obj.p.price
              /\ obj'.p.available = obj.p.available
              /\ obj'.p.category = obj.p.category
      ]_vars

C5_Witness ==
    /\ resp.op = "reload" /\ ~resp.raised
    /\ obj.p.price = Dec(0, <<"1", "2", "5", "0">>, -2, "")
    /\ obj.p.category = Category["TOOLS"]
    /\ ~obj.p.available

\* A payload of the kinds C6 lists: empty or absent, lacking a required key,
\* with a non-boolean available, with a category that is none of the six
\* names, or with an unparsable price.
Rejectable(data) ==
    /\ data.kind \in {"null", "dict"}
    /\ \/ data.kind = "null"
       \/ Absent \in {data.name, data.description, data.price, data.available,
                      data.category}
       \/ data.available.t # "bool"
       \/ data.category.t # "str"
       \/ data.category.s \notin VariantNames
       \/ data.price \in UnparsablePrices

\* deserialize raises for every such payload, on a new Product.
DeserializeRejects ==
    \A data \in Bodies \cup SerdeBodies :
       Rejectable(data) => ~deserialize(NewProduct, data).ok

\* C6: deserialize fails for every payload that is empty or absent, lacks a
\* required key, has a non-boolean available, a category that is none of the
\* six names or an unparsable price; POST /products with such a body and
\* Content-Type application/json answers 400 and leaves the stored products
\* unchanged.
C6_InvalidPayloadRejected ==
    [][ /\ DeserializeRejects
        /\ (resp'.op = "POST" /\ resp'.ctype = JsonType) =>
              \A data \in Bodies :
                 (Rejectable(data) /\ create_products(JsonType, data)) =>
                    (resp'.code = 400 /\ store' = store)
        /\ resp'.op = "deserialize" =>
              \A data \in ApiBodies :
                 (Rejectable(data) /\ call_deserialize(data)) =>
                    (resp'.raised /\ store' = store)
      ]_vars

C6_Witness ==
    /\ resp.op = "POST" /\ resp.ctype = JsonType /\ resp.code = 400
    /\ store # NoRows
    /\ \E data \in BadCategoryBodies : Rejectable(data)
    /\ \E data \in MissingKeyBodies : Rejectable(data)

\* C7: a POST /products or PUT /products/{id} whose Content-Type is absent
\* or not exactly application/json is answered 415, whatever the body and
\* whether or not the id exists; nothing of the body is assigned and the
\* stored products are unchanged.
C7_WrongContentTypeIs415 ==
    [][ (resp'.op \in {"POST", "PUT"} /\ resp'.ctype # JsonType) =>
           (resp'.code = 415 /\ store' = store /\ session' = session)
      ]_vars

C7_Witness ==
    /\ resp.op = "PUT" /\ resp.code = 415
    /\ resp.ctype = JStr("application/json; charset=utf-8")
    /\ resp.id \in DOMAIN store

\* C8: PUT /products/{id} sent as application/json on an id that is not
\* stored answers 404 whatever the body, valid or not, and creates nothing.
C8_PutOnAbsentIdIs404 ==
    [][ \A product_id \in Ids \ DOMAIN store :
           resp'.op = "PUT" /\ resp'.id = product_id =>
              \A data \in Bodies :
                 update_product(product_id, JsonType, data) =>
                    (resp'.code = 404 /\ store' = store)
      ]_vars

C8_Witness ==
    /\ resp.op = "PUT" /\ resp.ctype = JsonType /\ resp.code = 404
    /\ resp.id \notin DOMAIN store
    /\ store # NoRows

\* A query parameter is given: present, with a value that is not empty.
Given(arg) == arg # Absent /\ arg # JStr("") /\ arg # JChars(<<>>)

\* C9: GET /products applies one filter by the precedence name > category >
\* available > none: with name given, the stored products of that name;
\* otherwise with category given, those of that category; otherwise with
\* available given, those with that flag; otherwise all stored products.
\* The 200 answer has one serialized entry per matching stored product and
\* no other.
C9_ListFiltersByPrecedence ==
    [][ resp'.op = "LIST" =>
          LET q        == resp'.q
              stored   == {store[i] : i \in DOMAIN store}
              expected ==
                 IF Given(q.name)
                 THEN {p \in stored : p.name = q.name.s}
                 ELSE IF Given(q.category)
                 THEN {p \in stored : CategoryName(p.category) = q.category.s}
                 ELSE IF q.available # Absent
                 THEN {p \in stored :
                          p.available = (Lower(q.available.cs) = <<"t", "r", "u", "e">>)}
                 ELSE stored
          IN  /\ (Given(q.name) \/ q = NoQuery) => resp'.code = 200
              /\ resp'.code = 200 => resp'.body = {serialize(p) : p \in expected}
      ]_vars

\* The category filter of a query is the one applied: no name is given (an
\* empty one counts as not given) and the category is given and not empty.
CategorySelected(q) == ~Given(q.name) /\ Given(q.category)

\* find_by_category answers the sentinel exactly for a name that is none of
\* the six, and an empty list for a recognized category (FOOD, by member or
\* by name) that no product the query sees has.
SentinelOnlyForUnknownName ==
    \A category \in CategoryCallArgs :
       call_find_by_category(category) =>
          /\ resp'.none <=> (category.t = "str" /\ category.s \notin VariantNames)
          /\ (~resp'.none /\ ~\E p \in all(store, session) : p.category = Category["FOOD"])
                => resp'.body = {}

\* C10 as stated: find_by_category answers the sentinel for a name that is
\* none of the six and an empty list for a recognized category without
\* products; GET /products with an unrecognized category answers 400, with
\* a recognized category that no stored product has 200 and an empty array.
C10_UnrecognizedCategoryIs400 ==
    [][ /\ resp'.op = "find_by_category" => SentinelOnlyForUnknownName
        /\ (resp'.op = "LIST" /\ resp'.q.category # Absent) =>
              IF resp'.q.category.s \notin VariantNames
              THEN resp'.code = 400
              ELSE (~\E i \in DOMAIN store :
                        CategoryName(store[i].category) = resp'.q.category.s)
                      => (resp'.code = 200 /\ resp'.body = {})
      ]_vars

\* C10 amended: the same, for GET /products whose category parameter is the
\* filter applied, that is not empty and not overridden by a non-empty
\* name.
C10_SelectedCategoryChecked ==
    [][ /\ resp'.op = "find_by_category" => SentinelOnlyForUnknownName
        /\ (resp'.op = "LIST" /\ CategorySelected(resp'.q)) =>
              IF resp'.q.category.s \notin VariantNames
              THEN resp'.code = 400 /\ store' = store
              ELSE (~\E i \in DOMAIN store :
                        CategoryName(store[i].category) = resp'.q.category.s)
                      => (resp'.code = 200 /\ resp'.body = {})
      ]_vars

C10_Witness ==
    /\ resp.op = "LIST" /\ resp.code = 400
    /\ resp.q = Query(JStr(""), JStr("INVALID"), Absent)
    /\ store # NoRows

\* The available filter of a query is the one applied: neither a name nor a
\* category is given, and the available parameter is present.
AvailableSelected(q) ==
    ~Given(q.name) /\ ~Given(q.category) /\ q.available # Absent

\* C11: GET /products whose available parameter is the filter applied
\* answers 400 when the value, compared without regard to case, is neither
\* "true" nor "false" (the empty string included), and otherwise 200 with
\* exactly the stored products whose available flag is the parsed value;
\* find_by_availability() without argument returns exactly the stored
\* products with available = true.
C11_AvailableFilter ==
    [][ /\ (resp'.op = "LIST" /\ AvailableSelected(resp'.q)) =>
              LET text   == Lower(resp'.q.available.cs)
                  stored == {store[i] : i \in DOMAIN store}
              IN  IF text \notin {<<"t", "r", "u", "e">>, <<"f", "a", "l", "s", "e">>}
                  THEN resp'.code = 400 /\ store' = store
                  ELSE /\ resp'.code = 200
                       /\ resp'.body =
                             {serialize(p) : p \in
                                {r \in stored : r.available = (text = <<"t", "r", "u", "e">>)}}
        /\ resp'.op = "find_by_availability" =>
              (call_find_by_availability(Absent) =>
                  resp'.body = {serialize(store[i]) :
                                   i \in {k \in DOMAIN store : store[k].available}})
      ]_vars

\* C12: a PUT /products/{id} on a stored product that is answered 400 leaves
\* the stored product unchanged in every field, a GET /products/{id} that
\* follows shows the product as it was before, and none of the assignments
\* deserialize made before it failed is persisted later: a request changes a
\* stored product only when it is a PUT on that product answered 200.
C12_FailedPutChangesNothing ==
    [][ /\ (resp'.op = "PUT" /\ resp'.code = 400) =>
              /\ resp'.id \in DOMAIN store
              /\ store' = store
              /\ find(store', session', resp'.id) = find(store, session, resp'.id)
              /\ all(store', session') = all(store, session)
        /\ context # "api" =>
              \A id \in DOMAIN store \cap DOMAIN store' :
                 store'[id] # store[id] =>
                    (resp'.op = "PUT" /\ resp'.code = 200 /\ resp'.id = id)
      ]_vars

(***************************************************************************)
(* RaceSpec: PUT requests served concurrently, each on a thread of its own  *)
(* with its own application context and session.  The handler is split at   *)
(* its accesses to the database: the SELECT of Product.find, the            *)
(* assignments of deserialize (in memory), the UPDATE and COMMIT of         *)
(* Product.update, and the SELECT that serialize triggers on the object     *)
(* expired by the commit.                                                   *)
(***************************************************************************)
Columns == {"name", "description", "price", "available", "category"}

\* The UPDATE a flush issues: it sets the columns whose attribute no longer
\* has the loaded value, on the row as it is at that moment.
flush(row, loaded, p) ==
    [f \in DOMAIN row |-> IF f \in Columns /\ p[f] # loaded[f] THEN p[f] ELSE row[f]]

\* Valid payloads that change one attribute only of the first valid payload.
OneFieldBodies ==
    { Body("dict", JStr("Mug"), JStr("A red hat"), JChars(P1250), JBool(TRUE),
           JStr("CLOTHS"), Absent),
      Body("dict", JStr("Hat"), JStr("A red hat"), JChars(P1250), JBool(FALSE),
           JStr("CLOTHS"), Absent) }

RaceBodies == ValidBodies \cup OneFieldBodies \cup BadCategoryBodies

\* The table the requests find: products 1..MaxId-1, each created from the
\* first valid payload.
RaceTable ==
    [i \in 1..(MaxId - 1) |->
        [deserialize(NewProduct,
                     Body("dict", JStr("Hat"), JStr("A red hat"), JChars(P1250),
                          JBool(TRUE), JStr("CLOTHS"), Absent)).p EXCEPT !.id = i]]

RaceInit ==
    /\ store = RaceTable
    /\ session = NoRows
    /\ context = "request"
    /\ obj = Handle("transient", FALSE, NewProduct)
    /\ resp = Status("none", NoId, 0)
    /\ puts = [c \in Clients |-> Idle]

\* The frame of a step of client c's request, which becomes `next`.
Step(c, next) ==
    /\ context = "request"
    /\ puts' = [puts EXCEPT ![c] = next]
    /\ UNCHANGED <<session, context, obj, resp>>

Answer(r, code, body) == [r EXCEPT !.pc = "done", !.code = code, !.body = body]

\* check_content_type, then product = Product.find(product_id)
put_find(c, product_id, ctype, data) ==
    /\ puts[c].pc = "idle"
    /\ LET r == Put("found", product_id, ctype, data, NewProduct, NewProduct, 0, {})
       IN  IF ~check_content_type(ctype, JsonType)
           THEN Step(c, Answer(r, 415, {}))
           ELSE IF product_id \notin DOMAIN store
           THEN Step(c, Answer(r, 404, {}))
           ELSE Step(c, [r EXCEPT !.loaded = store[product_id], !.p = store[product_id]])
    /\ UNCHANGED store

\* product.deserialize(request.get_json())
put_deserialize(c) ==
    /\ puts[c].pc = "found"
    /\ LET r      == puts[c]
           parsed == deserialize(r.p, r.data)
       IN  IF r.data.kind = "malformed" \/ ~parsed.ok
           THEN Step(c, Answer(r, 400, {}))
           ELSE Step(c, [r EXCEPT !.pc = "assigned", !.p = parsed.p])
    /\ UNCHANGED store

\* product.update(): the flush and the commit
put_update(c) ==
    /\ puts[c].pc = "assigned"
    /\ LET r == puts[c]
       IN  IF r.p.id = NoId
           THEN Step(c, Answer(r, 400, {})) /\ UNCHANGED store
           ELSE /\ store' = [store EXCEPT ![r.id] = flush(store[r.id], r.loaded, r.p)]
                /\ Step(c, [r EXCEPT !.pc = "committed"])

\* return jsonify(product.serialize()), 200
put_respond(c) ==
    /\ puts[c].pc = "committed"
    /\ Step(c, Answer(puts[c], 200, {serialize(store[puts[c].id])}))
    /\ UNCHANGED store

RaceNext ==
    \E c \in Clients :
       \/ \E product_id \in Ids, ctype \in {Absent, JsonType}, data \in RaceBodies :
             put_find(c, product_id, ctype, data)
       \/ put_deserialize(c)
       \/ put_update(c)
       \/ put_respond(c)

RaceSpec == RaceInit /\ [][RaceNext]_vars

\* C13: when two concurrent PUT requests with valid payloads on the same
\* stored id have both completed, both were answered 200 and the stored
\* product has the id it had and, in all five fields, the complete payload
\* of one of the two requests, never a mixture of both.
C13_ConcurrentPutsKeepOnePayload ==
    \A a \in Clients : \A b \in Clients \ {a} :
       ( /\ puts[a].pc = "done" /\ puts[b].pc = "done"
         /\ puts[a].id = puts[b].id /\ puts[a].id \in DOMAIN RaceTable
         /\ puts[a].ctype = JsonType /\ puts[b].ctype = JsonType
         /\ deserialize(NewProduct, puts[a].data).ok
         /\ deserialize(NewProduct, puts[b].data).ok )
       => /\ puts[a].code = 200 /\ puts[b].code = 200
          /\ puts[a].id \in DOMAIN store
          /\ store[puts[a].id].id = puts[a].id
          /\ \E c \in {a, b} :
                store[puts[a].id] =
                   [deserialize(NewProduct, puts[c].data).p EXCEPT !.id = puts[a].id]
====
